---- MODULE Spec2Model ----
(***************************************************************************)
(* BGCSL enrollment matching and write-back.                               *)
(*                                                                         *)
(* main.py: process_enrollment_folder walks the enrollment CSVs that are   *)
(* not yet in out/processed_files.txt; for each it runs match_students     *)
(* (find_best_match on every row), writes the matched table, runs          *)
(* add_program_batch (existence check, next sequence number, insert and    *)
(* commit per row) and then appends the path to the ledger.                *)
(* process_enrollments.py: a second copy of find_best_match.               *)
(***************************************************************************)
EXTENDS Integers, Sequences, FiniteSets, TLC

VARIABLES
    \* ---- the world outside the processes
    files,          \* input folder: file number |-> rows of the CSV (in order)
    dbStudents,     \* the student table returned by sql.all_students
    score,          \* fuzz.token_set_ratio on the names in play: [csv name][db name]
    events,         \* program table (PGM): inserted rows, in insertion order
    ledger,         \* out/processed_files.txt: the lines appended, in order
    rejectedOut,    \* out/rejected_rows.csv: <<>> (no file) or <<rows>>
    matchedOut,     \* out/matched_<name>: set of [file, table]
    failures,       \* exceptions raised so far (bounded by MaxFailures)
    \* ---- one process_enrollment_folder process per element of Procs
    pc,             \* position in the code
    processed,      \* the set read from the ledger at the start of the run
    todo,           \* files of this run not yet handled; Head is the current one
    matched,        \* final_df of the current file
    ri,             \* add_program_batch: index of the row under the loop
    id,             \* add_program_batch: local id
    next_sq,        \* add_program_batch: local next_sq
    rejected_rows,  \* add_program_batch: local rejected_rows
    nloads,         \* read_sql_query(sql.all_students) calls in this run
    \* ---- what the log lines record
    err,            \* the last exception logged by the process
    passed,         \* files whose add_program_batch has returned without raising
    raised,         \* files whose processing raised in the current run
    marked,         \* files appended to the ledger in the current run
    \* ---- find_best_match applied to a single row, the grade maps applied
    \* ---- to a Grade column
    resolved        \* <<>> or <<[row, main, pe]>>; for the grades <<[Grade, main, pe]>>

worldVars == <<files, dbStudents, score>>
outVars   == <<events, ledger, rejectedOut, matchedOut>>
procVars  == <<pc, processed, todo, matched, ri, id, next_sq, rejected_rows, nloads>>
logVars   == <<err, passed, raised, marked>>
vars == <<worldVars, outVars, failures, procVars, logVars, resolved>>

-----------------------------------------------------------------------------
\* Values

\* pandas NA / NaT / None of a numeric or date column (to_numeric and
\* to_datetime with errors='coerce'); identifiers and dates are positive.
NA == 0

\* the string "nan" that astype(str) makes of a missing location
NanStr == "nan"
\* Python None in a string column (an absent CSV column, an unmatched row)
NoneStr == "<None>"

\* pandas.notna on a numeric or date value, and on a string value
notna(v) == v # NA
notnaStr(v) == v # NoneStr

fuzz_threshold == 85
PgmCode == 194

\* bounds of the model
MaxReg == 2         \* rows of the registry given to find_best_match
MaxRows == 3        \* rows of the input folder, over its two files
MaxFailures == 1    \* exceptions raised in one behaviour

Ids == {1, 2}
RegIds == {1}
Dates == {1}
Sites == {"Lincoln", "Adams"}
CsvNames == {"Jane Doe"}
DbNames == {"Jane Doe", "Jayne Doe"}
Scores == {fuzz_threshold - 1, fuzz_threshold, fuzz_threshold + 1, 100}

\* token_set_ratio is 100 on equal names; otherwise any score of Scores
ScoreTables ==
    {t \in [CsvNames -> [DbNames -> Scores]] :
        \A n \in CsvNames \cap DbNames : t[n][n] = 100}

RegistryRows == [ID : RegIds \cup {NA}, fullname : DbNames, BD : Dates \cup {NA}, NM : Sites]
EnrolleeRows == [fullname : CsvNames, Birthdate : Dates \cup {NA},
                 SchoolID : Ids \cup {NA}, Location : Sites \cup {NanStr, NoneStr}]

RECURSIVE SeqsUpTo(_, _)
SeqsUpTo(S, n) ==
    IF n = 0 THEN {<<>>}
    ELSE LET shorter == SeqsUpTo(S, n - 1)
         IN shorter \cup {Append(s, x) : s \in {t \in shorter : Len(t) = n - 1}, x \in S}

Range(s) == {s[i] : i \in DOMAIN s}

-----------------------------------------------------------------------------
\* find_best_match

\* process.extractOne(query, choices['fullname'], scorer=fuzz.token_set_ratio):
\* the first choice with the highest score, with its score
extractOne(query, choices, sc) ==
    LET best == CHOOSE i \in DOMAIN choices :
                    /\ \A j \in DOMAIN choices :
                          sc[query][choices[j].fullname] <= sc[query][choices[i].fullname]
                    /\ \A j \in 1..(i - 1) :
                          sc[query][choices[j].fullname] < sc[query][choices[i].fullname]
    IN <<choices[best].fullname, sc[query][choices[best].fullname]>>

\* df[df['fullname'] == name].iloc[0]
FirstNamed(choices, name) ==
    Head(SelectSeq(choices, LAMBDA r : r.fullname = name))

MatchSeries(type, notes, r) ==
    [match_type |-> type, notes |-> notes,
     ID |-> r.ID, fullname |-> r.fullname, BD |-> r.BD, NM |-> r.NM]

empty_data == [ID |-> NA, fullname |-> NoneStr, BD |-> NA, NM |-> NoneStr]

ScoreNote(s) == "Name match score: " \o ToString(s) \o "."
MismatchNote(s, csv, db) ==
    "Name mismatch (score: " \o ToString(s) \o "). CSV: '" \o csv \o "', DB: '" \o db \o "'."

NoMatch == MatchSeries("No Match", "", empty_data)

\* Strategy 3 without the threshold test: the best location candidate is
\* returned whatever its score
Strategy3_NoThreshold(row, stu_data_df, sc, thr) ==
    LET possible_matches_loc ==
            SelectSeq(stu_data_df, LAMBDA r : r.NM = row.Location)
    IN IF notnaStr(row.Location) /\ row.Location # NanStr /\ possible_matches_loc # <<>>
       THEN LET match == extractOne(row.fullname, possible_matches_loc, sc)
            IN MatchSeries("Fuzzy Name + Location", ScoreNote(match[2]),
                           FirstNamed(possible_matches_loc, match[1]))
       ELSE NoMatch

\* Strategy 3 and the final fall-through (main.py lines 134-147)
Strategy3(row, stu_data_df, sc, thr) ==
    LET possible_matches_loc ==
            SelectSeq(stu_data_df, LAMBDA r : r.NM = row.Location)
    IN IF notnaStr(row.Location) /\ row.Location # NanStr /\ possible_matches_loc # <<>>
       THEN LET match == extractOne(row.fullname, possible_matches_loc, sc)
            IN IF match[2] > thr
               THEN MatchSeries("Fuzzy Name + Location", ScoreNote(match[2]),
                                FirstNamed(possible_matches_loc, match[1]))
               ELSE NoMatch
       ELSE NoMatch

\* Strategy 2 with the note written on name_score < threshold
Strategy2_StrictNote(row, stu_data_df, sc, thr) ==
    LET possible_match_id ==
            SelectSeq(stu_data_df, LAMBDA r : r.ID # NA /\ r.ID = row.SchoolID)
    IN IF notna(row.SchoolID) /\ possible_match_id # <<>>
       THEN LET matched_row == Head(possible_match_id)
                name_score == sc[row.fullname][matched_row.fullname]
                notes == IF name_score < thr
                         THEN MismatchNote(name_score, row.fullname, matched_row.fullname)
                         ELSE ""
            IN MatchSeries("School ID", notes, matched_row)
       ELSE Strategy3(row, stu_data_df, sc, thr)

\* Strategy 2, else strategy 3 (main.py lines 123-132)
Strategy2(row, stu_data_df, sc, thr) ==
    LET possible_match_id ==
            SelectSeq(stu_data_df, LAMBDA r : r.ID # NA /\ r.ID = row.SchoolID)
    IN IF notna(row.SchoolID) /\ possible_match_id # <<>>
       THEN LET matched_row == Head(possible_match_id)
                name_score == sc[row.fullname][matched_row.fullname]
                notes == IF name_score <= thr
                         THEN MismatchNote(name_score, row.fullname, matched_row.fullname)
                         ELSE ""
            IN MatchSeries("School ID", notes, matched_row)
       ELSE Strategy3(row, stu_data_df, sc, thr)

\* the cascade with the School ID strategy tried before the birthdate one
find_best_match_IdFirst(row, stu_data_df, sc, thr) ==
    LET possible_match_id ==
            SelectSeq(stu_data_df, LAMBDA r : r.ID # NA /\ r.ID = row.SchoolID)
        possible_matches_bd ==
            SelectSeq(stu_data_df, LAMBDA r : r.BD # NA /\ r.BD = row.Birthdate)
    IN IF notna(row.SchoolID) /\ possible_match_id # <<>>
       THEN Strategy2(row, stu_data_df, sc, thr)
       ELSE IF /\ notna(row.Birthdate) /\ possible_matches_bd # <<>>
               /\ extractOne(row.fullname, possible_matches_bd, sc)[2] > thr
       THEN LET match == extractOne(row.fullname, possible_matches_bd, sc)
            IN MatchSeries("Fuzzy Name + Birthdate", ScoreNote(match[2]),
                           FirstNamed(possible_matches_bd, match[1]))
       ELSE Strategy3(row, stu_data_df, sc, thr)

\* main.py find_best_match(row, stu_data_df, fuzz_threshold=85)
find_best_match(row, stu_data_df, sc, thr) ==
    LET possible_matches_bd ==
            SelectSeq(stu_data_df, LAMBDA r : r.BD # NA /\ r.BD = row.Birthdate)
    IN IF notna(row.Birthdate) /\ possible_matches_bd # <<>>
       THEN LET match == extractOne(row.fullname, possible_matches_bd, sc)
            IN IF match[2] > thr
               THEN MatchSeries("Fuzzy Name + Birthdate", ScoreNote(match[2]),
                                FirstNamed(possible_matches_bd, match[1]))
               ELSE Strategy2(row, stu_data_df, sc, thr)
       ELSE Strategy2(row, stu_data_df, sc, thr)

\* process_enrollments.py find_best_match: the same cascade written with
\* row.get(...) and str(location) != "nan"
find_best_match_pe(row, stu_data_df, sc, thr) ==
    LET bd_matches == SelectSeq(stu_data_df, LAMBDA r : r.BD # NA /\ r.BD = row.Birthdate)
        id_matches == SelectSeq(stu_data_df, LAMBDA r : r.ID # NA /\ r.ID = row.SchoolID)
        loc_matches == SelectSeq(stu_data_df, LAMBDA r : r.NM = row.Location)
        s1 == notna(row.Birthdate) /\ bd_matches # <<>>
                /\ extractOne(row.fullname, bd_matches, sc)[2] > thr
        s2 == notna(row.SchoolID) /\ id_matches # <<>>
        s3 == notnaStr(row.Location) /\ row.Location # NanStr /\ loc_matches # <<>>
                /\ extractOne(row.fullname, loc_matches, sc)[2] > thr
    IN IF s1
       THEN LET result == extractOne(row.fullname, bd_matches, sc)
            IN MatchSeries("Fuzzy Name + Birthdate", ScoreNote(result[2]),
                           FirstNamed(bd_matches, result[1]))
       ELSE IF s2
       THEN LET m == Head(id_matches)
                name_score == sc[row.fullname][m.fullname]
            IN MatchSeries("School ID",
                           IF name_score <= thr
                           THEN MismatchNote(name_score, row.fullname, m.fullname)
                           ELSE "",
                           m)
       ELSE IF s3
       THEN LET result == extractOne(row.fullname, loc_matches, sc)
            IN MatchSeries("Fuzzy Name + Location", ScoreNote(result[2]),
                           FirstNamed(loc_matches, result[1]))
       ELSE MatchSeries("No Match", "", empty_data)

-----------------------------------------------------------------------------
\* The students table, the input folder and the program table of the
\* write-back runs

Procs == {1, 2}
FileIds == {1, 2}
OtherCodes == {101}

Registry0 ==
    << [ID |-> 1, fullname |-> "Jane Doe", BD |-> 1, NM |-> "Lincoln"],
       [ID |-> 2, fullname |-> "Jayne Doe", BD |-> NA, NM |-> "Adams"] >>

Score0 == [n \in CsvNames |-> [m \in DbNames |-> IF m = n THEN 100 ELSE fuzz_threshold - 1]]

\* rows of an enrollment CSV: matched on name and birthdate (student 1), on
\* School ID (student 2), and not matched
IntakeRows ==
    { [fullname |-> "Jane Doe", Birthdate |-> 1, SchoolID |-> NA, Location |-> "Lincoln"],
      [fullname |-> "Jane Doe", Birthdate |-> NA, SchoolID |-> 2, Location |-> NanStr],
      [fullname |-> "Jane Doe", Birthdate |-> NA, SchoolID |-> NA, Location |-> NanStr] }

Folders ==
    {f \in [FileIds -> SeqsUpTo(IntakeRows, MaxRows - 1) \ {<<>>}] :
        Len(f[1]) + Len(f[2]) <= MaxRows}

Event(i, sq, pgm) == [id |-> i, sq |-> sq, pgm |-> pgm]

\* program rows that exist before the first run
InitialStores ==
    { <<>>,
      <<Event(1, 1, 101), Event(1, 2, 101)>>,
      <<Event(2, 3, 101), Event(1, 1, PgmCode)>> }

-----------------------------------------------------------------------------
\* The three statements of the sql object

\* sql.pgm_code_check: the program rows of (id, pgm_code)
pgm_code_check(i, pgm_code) ==
    SelectSeq(events, LAMBDA e : e.id = i /\ e.pgm = pgm_code)

\* sql.last_pgm_sq: the highest sequence number of the student, if any
last_pgm_sq(i) ==
    LET mine == {e \in Range(events) : e.id = i}
    IN IF mine = {} THEN <<>>
       ELSE <<[sq |-> CHOOSE s \in {e.sq : e \in mine} : \A e \in mine : e.sq <= s]>>

\* sql.insert_pgm followed by conn.commit()
insert_pgm(i, sq, pgm_code) == Append(events, Event(i, sq, pgm_code))

\* get_next_pgm_sq that looks at the rows of the program code being inserted
get_next_pgm_sq_PerCode(i) ==
    LET mine == {e \in Range(events) : e.id = i /\ e.pgm = PgmCode}
    IN IF mine = {} THEN 1
       ELSE 1 + CHOOSE s \in {e.sq : e \in mine} : \A e \in mine : e.sq <= s

\* get_next_pgm_sq(id, aeries_cnxn)
get_next_pgm_sq(i) ==
    LET data == last_pgm_sq(i)
    IN IF data = <<>> THEN 1 ELSE data[1].sq + 1

-----------------------------------------------------------------------------
\* match_students

\* concat([df_stusheet, match_results], axis=1): one row of final_df. Both
\* frames have a column labelled fullname and concat keeps the two under that
\* one label: the rename of lines 162-167 looks for fullname_x / fullname_y,
\* which concat does not make. csv_fullname and db_fullname stand for the
\* first and the second column labelled fullname.
FinalRow(row, m) ==
    [csv_fullname |-> row.fullname, Birthdate |-> row.Birthdate,
     SchoolID |-> row.SchoolID, Location |-> row.Location,
     match_type |-> m.match_type, notes |-> m.notes,
     ID |-> m.ID, db_fullname |-> m.fullname, BD |-> m.BD, NM |-> m.NM]

\* row.to_dict(): one entry for each label; of the two values under the
\* label fullname the last one (the registry's) is kept
to_dict(row) ==
    [Birthdate |-> row.Birthdate, SchoolID |-> row.SchoolID, Location |-> row.Location,
     match_type |-> row.match_type, notes |-> row.notes, ID |-> row.ID,
     fullname |-> row.db_fullname, BD |-> row.BD, NM |-> row.NM]

match_students(infile) ==
    [i \in DOMAIN files[infile] |->
        FinalRow(files[infile][i],
                 find_best_match(files[infile][i], dbStudents, score, fuzz_threshold))]

-----------------------------------------------------------------------------
\* process_enrollment_folder and add_program_batch, one step at a time

cur(p) == Head(todo[p])

NoErr == [file |-> 0, row |-> 0, at |-> "none"]

\* files = [f for f in sorted(files) if str(f.resolve()) not in processed]
NewFiles(done) ==
    LET a == IF 1 \in done THEN <<>> ELSE <<1>>
        b == IF 2 \in done THEN <<>> ELSE <<2>>
    IN a \o b

\* the for loop moves to the next file
NextFile(p) ==
    /\ todo' = [todo EXCEPT ![p] = Tail(@)]
    /\ pc' = [pc EXCEPT ![p] = "file"]

\* an exception is raised and logged: the budget of failures, the log line
Raise(p, where) ==
    /\ failures < MaxFailures
    /\ failures' = failures + 1
    /\ err' = [err EXCEPT ![p] = [file |-> cur(p), row |-> ri[p], at |-> where]]

\* the handler that records the failed file in the ledger as well
ExceptContinue_Marks(p, where) ==
    /\ Raise(p, where)
    /\ raised' = [raised EXCEPT ![p] = @ \cup {cur(p)}]
    /\ NextFile(p)
    /\ ledger' = Append(ledger, cur(p))
    /\ marked' = [marked EXCEPT ![p] = @ \cup {cur(p)}]
    /\ UNCHANGED passed

\* except Exception as e: core.log(...); continue   (lines 237-239)
ExceptContinue(p, where) ==
    /\ Raise(p, where)
    /\ raised' = [raised EXCEPT ![p] = @ \cup {cur(p)}]
    /\ NextFile(p)
    /\ UNCHANGED <<ledger, marked, passed>>

\* lines 180-208: read the ledger, list the new files
StartWith(p, done) ==
    /\ processed' = [processed EXCEPT ![p] = done]
    /\ todo' = [todo EXCEPT ![p] = NewFiles(done)]
    /\ pc' = [pc EXCEPT ![p] = IF NewFiles(done) = <<>> THEN "idle" ELSE "file"]
    /\ raised' = [raised EXCEPT ![p] = {}]
    /\ marked' = [marked EXCEPT ![p] = {}]
    /\ nloads' = [nloads EXCEPT ![p] = 0]
    /\ UNCHANGED <<worldVars, outVars, matched, ri, id, next_sq, rejected_rows,
                   passed, resolved>>

StartRun(p) ==
    /\ pc[p] = "idle"
    /\ StartWith(p, Range(ledger))
    /\ UNCHANGED <<failures, err>>

\* lines 199-202: the ledger exists and cannot be read: processed = set()
StartRunUnreadable(p) ==
    /\ pc[p] = "idle"
    /\ ledger # <<>>
    /\ failures < MaxFailures
    /\ failures' = failures + 1
    /\ err' = [err EXCEPT ![p] = [file |-> 0, row |-> 0, at |-> "ledger"]]
    /\ StartWith(p, {})

\* the for loop is over
EndRun(p) ==
    /\ pc[p] = "file"
    /\ todo[p] = <<>>
    /\ pc' = [pc EXCEPT ![p] = "idle"]
    /\ UNCHANGED <<worldVars, outVars, failures, processed, todo, matched, ri, id,
                   next_sq, rejected_rows, nloads, logVars, resolved>>

\* line 213: matched = match_students(infile=str(f)); the students table is
\* read again for every file (line 31)
MatchStudents(p) ==
    /\ pc[p] = "file"
    /\ todo[p] # <<>>
    /\ matched' = [matched EXCEPT ![p] = match_students(cur(p))]
    /\ nloads' = [nloads EXCEPT ![p] = @ + 1]
    /\ pc' = [pc EXCEPT ![p] = "to_csv"]
    /\ UNCHANGED <<worldVars, outVars, failures, processed, todo, ri, id, next_sq,
                   rejected_rows, logVars, resolved>>

\* line 213 raises (unreadable or malformed CSV, database error)
MatchStudentsFails(p) ==
    /\ pc[p] = "file"
    /\ todo[p] # <<>>
    /\ ExceptContinue(p, "match_students")
    /\ UNCHANGED <<worldVars, events, rejectedOut, matchedOut, processed, matched, ri,
                   id, next_sq, rejected_rows, nloads, resolved>>

\* lines 215-218, then the entry of add_program_batch (line 242)
WriteMatched(p) ==
    /\ pc[p] = "to_csv"
    /\ matchedOut' = {m \in matchedOut : m.file # cur(p)}
                        \cup {[file |-> cur(p), table |-> matched[p]]}
    /\ pc' = [pc EXCEPT ![p] = "row"]
    /\ ri' = [ri EXCEPT ![p] = 1]
    /\ id' = [id EXCEPT ![p] = NA]
    /\ next_sq' = [next_sq EXCEPT ![p] = NA]
    /\ rejected_rows' = [rejected_rows EXCEPT ![p] = <<>>]
    /\ UNCHANGED <<worldVars, events, ledger, rejectedOut, failures, processed, todo,
                   matched, nloads, logVars, resolved>>

\* to_csv raises and the file is recorded as processed all the same
WriteMatchedFails_Marks(p) ==
    /\ pc[p] = "to_csv"
    /\ Raise(p, "to_csv")
    /\ raised' = [raised EXCEPT ![p] = @ \cup {cur(p)}]
    /\ NextFile(p)
    /\ ledger' = Append(ledger, cur(p))
    /\ marked' = [marked EXCEPT ![p] = @ \cup {cur(p)}]
    /\ UNCHANGED <<worldVars, events, rejectedOut, matchedOut, processed, matched, ri,
                   id, next_sq, rejected_rows, nloads, passed, resolved>>

\* lines 219-222: to_csv raises; continue without marking the file
WriteMatchedFails(p) ==
    /\ pc[p] = "to_csv"
    /\ Raise(p, "to_csv")
    /\ raised' = [raised EXCEPT ![p] = @ \cup {cur(p)}]
    /\ NextFile(p)
    /\ UNCHANGED <<worldVars, outVars, processed, matched, ri, id, next_sq,
                   rejected_rows, nloads, passed, marked, resolved>>

InRow(p) == pc[p] = "row" /\ ri[p] <= Len(matched[p])

\* lines 244-250: the row has no ID
RejectRow(p) ==
    /\ InRow(p)
    /\ ~notna(matched[p][ri[p]].ID)
    /\ id' = [id EXCEPT ![p] = NA]
    /\ rejected_rows' = [rejected_rows EXCEPT ![p] = Append(@, to_dict(matched[p][ri[p]]))]
    /\ ri' = [ri EXCEPT ![p] = @ + 1]
    /\ UNCHANGED <<worldVars, outVars, failures, pc, processed, todo, matched, next_sq,
                   nloads, logVars, resolved>>

\* the existence check whose result is not used: every row goes on to the insert
CheckExisting_NoSkip(p) ==
    /\ pc[p] = "row" /\ ri[p] <= Len(matched[p])
    /\ notna(matched[p][ri[p]].ID)
    /\ id' = [id EXCEPT ![p] = matched[p][ri[p]].ID]
    /\ pc' = [pc EXCEPT ![p] = "seq"]
    /\ UNCHANGED <<worldVars, outVars, failures, processed, todo, matched, ri, next_sq,
                   rejected_rows, nloads, logVars, resolved>>

\* lines 244, 251-257: the existence check; an existing row skips the insert
CheckExisting(p) ==
    /\ InRow(p)
    /\ notna(matched[p][ri[p]].ID)
    /\ id' = [id EXCEPT ![p] = matched[p][ri[p]].ID]
    /\ IF pgm_code_check(matched[p][ri[p]].ID, PgmCode) # <<>>
       THEN /\ ri' = [ri EXCEPT ![p] = @ + 1]
            /\ pc' = pc
       ELSE /\ ri' = ri
            /\ pc' = [pc EXCEPT ![p] = "seq"]
    /\ UNCHANGED <<worldVars, outVars, failures, processed, todo, matched, next_sq,
                   rejected_rows, nloads, logVars, resolved>>

\* line 258
GetNextSq(p) ==
    /\ pc[p] = "seq"
    /\ next_sq' = [next_sq EXCEPT ![p] = get_next_pgm_sq(id[p])]
    /\ pc' = [pc EXCEPT ![p] = "insert"]
    /\ UNCHANGED <<worldVars, outVars, failures, processed, todo, matched, ri, id,
                   rejected_rows, nloads, logVars, resolved>>

\* an insert that looks for the pair once more and leaves a pair that has a
\* program row alone (INSERT ... WHERE NOT EXISTS)
Insert_IfAbsent(p) ==
    /\ pc[p] = "insert"
    /\ events' = IF pgm_code_check(id[p], PgmCode) # <<>> THEN events
                 ELSE insert_pgm(id[p], next_sq[p], PgmCode)
    /\ ri' = [ri EXCEPT ![p] = @ + 1]
    /\ pc' = [pc EXCEPT ![p] = "row"]
    /\ UNCHANGED <<worldVars, ledger, rejectedOut, matchedOut, failures, processed,
                   todo, matched, id, next_sq, rejected_rows, nloads, logVars, resolved>>

\* lines 270-280: insert and commit, then on to the next row
Insert(p) ==
    /\ pc[p] = "insert"
    /\ events' = insert_pgm(id[p], next_sq[p], PgmCode)
    /\ ri' = [ri EXCEPT ![p] = @ + 1]
    /\ pc' = [pc EXCEPT ![p] = "row"]
    /\ UNCHANGED <<worldVars, ledger, rejectedOut, matchedOut, failures, processed,
                   todo, matched, id, next_sq, rejected_rows, nloads, logVars, resolved>>

\* the error of a row caught inside the row loop: logged, on to the next row
DbOpFails_NextRow(p) ==
    /\ \/ pc[p] = "row" /\ ri[p] <= Len(matched[p]) /\ notna(matched[p][ri[p]].ID)
       \/ pc[p] \in {"seq", "insert"}
    /\ Raise(p, "db")
    /\ ri' = [ri EXCEPT ![p] = @ + 1]
    /\ pc' = [pc EXCEPT ![p] = "row"]
    /\ UNCHANGED <<worldVars, outVars, processed, todo, matched, id, next_sq,
                   rejected_rows, nloads, passed, raised, marked, resolved>>

\* one transaction for the whole batch: the error rolls back the rows
\* inserted for the earlier rows of the file
DbOpFails_Rollback(p) ==
    /\ \/ pc[p] = "row" /\ ri[p] <= Len(matched[p]) /\ notna(matched[p][ri[p]].ID)
       \/ pc[p] \in {"seq", "insert"}
    /\ ExceptContinue(p, "db")
    /\ events' = SelectSeq(events, LAMBDA e :
                    ~(e.pgm = PgmCode /\ \E j \in 1..(ri[p] - 1) : matched[p][j].ID = e.id))
    /\ UNCHANGED <<worldVars, rejectedOut, matchedOut, processed, matched, ri,
                   id, next_sq, rejected_rows, nloads, resolved>>

\* a database operation of the row raises: the existence check (line 251),
\* the sequence query (line 172) or the insert before its commit (line 271).
\* Nothing in add_program_batch catches it: it leaves the function and is
\* caught at line 237.
DbOpFails(p) ==
    /\ \/ InRow(p) /\ notna(matched[p][ri[p]].ID)
       \/ pc[p] \in {"seq", "insert"}
    /\ ExceptContinue(p, "db")
    /\ UNCHANGED <<worldVars, events, rejectedOut, matchedOut, processed, matched, ri,
                   id, next_sq, rejected_rows, nloads, resolved>>

\* the commit went through and the statement after it raises (line 280, or
\* closing the connection)
AfterCommitFails(p) ==
    /\ pc[p] = "insert"
    /\ events' = insert_pgm(id[p], next_sq[p], PgmCode)
    /\ ExceptContinue(p, "db")
    /\ UNCHANGED <<worldVars, rejectedOut, matchedOut, processed, matched, ri,
                   id, next_sq, rejected_rows, nloads, resolved>>

\* the rejected rows written in append mode: they follow the rows the file holds
WriteRejected_Appends(p) ==
    /\ pc[p] = "row"
    /\ ri[p] > Len(matched[p])
    /\ rejectedOut' = IF rejectedOut = <<>> THEN <<rejected_rows[p]>>
                      ELSE <<rejectedOut[1] \o rejected_rows[p]>>
    /\ passed' = passed \cup {cur(p)}
    /\ pc' = [pc EXCEPT ![p] = "mark"]
    /\ UNCHANGED <<worldVars, events, ledger, matchedOut, failures, processed, todo,
                   matched, ri, id, next_sq, rejected_rows, nloads, err, raised,
                   marked, resolved>>

\* line 281: the rejected rows replace out/rejected_rows.csv and
\* add_program_batch returns
WriteRejected(p) ==
    /\ pc[p] = "row"
    /\ ri[p] > Len(matched[p])
    /\ rejectedOut' = <<rejected_rows[p]>>
    /\ passed' = passed \cup {cur(p)}
    /\ pc' = [pc EXCEPT ![p] = "mark"]
    /\ UNCHANGED <<worldVars, events, ledger, matchedOut, failures, processed, todo,
                   matched, ri, id, next_sq, rejected_rows, nloads, err, raised,
                   marked, resolved>>

\* line 281 raises
WriteRejectedFails(p) ==
    /\ pc[p] = "row"
    /\ ri[p] > Len(matched[p])
    /\ ExceptContinue(p, "rejected")
    /\ UNCHANGED <<worldVars, events, rejectedOut, matchedOut, processed, matched, ri,
                   id, next_sq, rejected_rows, nloads, resolved>>

\* lines 230-233: the path is appended to the ledger
MarkProcessed(p) ==
    /\ pc[p] = "mark"
    /\ ledger' = Append(ledger, cur(p))
    /\ marked' = [marked EXCEPT ![p] = @ \cup {cur(p)}]
    /\ NextFile(p)
    /\ UNCHANGED <<worldVars, events, rejectedOut, matchedOut, failures, processed,
                   matched, ri, id, next_sq, rejected_rows, nloads, err, passed,
                   raised, resolved>>

\* lines 234-235: the append raises; logged, the file stays unrecorded
MarkProcessedFails(p) ==
    /\ pc[p] = "mark"
    /\ Raise(p, "ledger")
    /\ NextFile(p)
    /\ UNCHANGED <<worldVars, outVars, processed, matched, ri, id, next_sq,
                   rejected_rows, nloads, passed, raised, marked, resolved>>

Step(p) ==
    \/ StartRun(p)
    \/ StartRunUnreadable(p)
    \/ EndRun(p)
    \/ MatchStudents(p)
    \/ MatchStudentsFails(p)
    \/ WriteMatched(p)
    \/ WriteMatchedFails(p)
    \/ RejectRow(p)
    \/ CheckExisting(p)
    \/ GetNextSq(p)
    \/ Insert(p)
    \/ DbOpFails(p)
    \/ AfterCommitFails(p)
    \/ WriteRejected(p)
    \/ WriteRejectedFails(p)
    \/ MarkProcessed(p)
    \/ MarkProcessedFails(p)

InitProcs(active) ==
    /\ pc = [p \in Procs |-> IF p \in active THEN "idle" ELSE "off"]
    /\ processed = [p \in Procs |-> {}]
    /\ todo = [p \in Procs |-> <<>>]
    /\ matched = [p \in Procs |-> <<>>]
    /\ ri = [p \in Procs |-> 1]
    /\ id = [p \in Procs |-> NA]
    /\ next_sq = [p \in Procs |-> NA]
    /\ rejected_rows = [p \in Procs |-> <<>>]
    /\ nloads = [p \in Procs |-> 0]
    /\ err = [p \in Procs |-> NoErr]
    /\ raised = [p \in Procs |-> {}]
    /\ marked = [p \in Procs |-> {}]

\* a single process: the scheduled task runs main.py again and again
Init ==
    /\ files \in Folders
    /\ dbStudents = Registry0
    /\ score = Score0
    /\ events \in InitialStores
    /\ ledger = <<>>
    /\ rejectedOut = <<>>
    /\ matchedOut = {}
    /\ failures = 0
    /\ passed = {}
    /\ resolved = <<>>
    /\ InitProcs({1})

Next == \E p \in Procs : Step(p)

Spec == Init /\ [][Next]_vars

-----------------------------------------------------------------------------
\* find_best_match on one row: the students table and the scorer are drawn
\* at the start, each step resolves one enrollee row with both copies

MatchInit ==
    /\ files = [f \in FileIds |-> <<>>]
    /\ dbStudents \in SeqsUpTo(RegistryRows, MaxReg)
    /\ score \in ScoreTables
    /\ events = <<>>
    /\ ledger = <<>>
    /\ rejectedOut = <<>>
    /\ matchedOut = {}
    /\ failures = 0
    /\ passed = {}
    /\ resolved = <<>>
    /\ InitProcs({})

Resolve ==
    /\ resolved = <<>>
    /\ \E row \in EnrolleeRows :
          resolved' = << [row |-> row,
                          main |-> find_best_match(row, dbStudents, score, fuzz_threshold),
                          pe |-> find_best_match_pe(row, dbStudents, score, fuzz_threshold)] >>
    /\ UNCHANGED <<worldVars, outVars, failures, procVars, logVars>>

MatchNext == Resolve

MatchSpec == MatchInit /\ [][MatchNext]_vars

-----------------------------------------------------------------------------
\* What the cascade is to return, stated on the registry itself

\* candidates of each strategy for the row resolved last
BdCands == SelectSeq(dbStudents, LAMBDA r : r.BD # NA /\ r.BD = resolved[1].row.Birthdate)
IdCands == SelectSeq(dbStudents, LAMBDA r : r.ID # NA /\ r.ID = resolved[1].row.SchoolID)
LocCands == SelectSeq(dbStudents, LAMBDA r : r.NM = resolved[1].row.Location)

NameScore(r) == score[resolved[1].row.fullname][r.fullname]

\* the highest name score among candidates (0 when there is none)
BestScore(cands) ==
    IF cands = <<>> THEN 0
    ELSE CHOOSE s \in {NameScore(cands[i]) : i \in DOMAIN cands} :
            \A i \in DOMAIN cands : NameScore(cands[i]) <= s

\* the first candidate that has the highest name score
BestRow(cands) ==
    cands[CHOOSE i \in DOMAIN cands :
            /\ NameScore(cands[i]) = BestScore(cands)
            /\ \A j \in 1..(i - 1) : NameScore(cands[j]) < BestScore(cands)]

Qualifies1 == resolved[1].row.Birthdate # NA /\ BestScore(BdCands) > fuzz_threshold
Qualifies2 == resolved[1].row.SchoolID # NA /\ IdCands # <<>>
Qualifies3 ==
    /\ resolved[1].row.Location \notin {NoneStr, NanStr}
    /\ BestScore(LocCands) > fuzz_threshold

RowOf(m) == [ID |-> m.ID, fullname |-> m.fullname, BD |-> m.BD, NM |-> m.NM]

\* C4: the cascade is strictly prioritized: when strategy 1 qualifies the
\* result is the strategy-1 tag and row, whatever the identifier matches;
\* strategy 2 is returned only when 1 does not qualify, strategy 3 only when
\* neither 1 nor 2 does. Both copies of find_best_match.
C4_StrictPriority ==
    resolved # <<>> =>
        \A m \in {resolved[1].main, resolved[1].pe} :
            /\ Qualifies1 =>
                  m.match_type = "Fuzzy Name + Birthdate" /\ RowOf(m) = BestRow(BdCands)
            /\ m.match_type = "School ID" =>
                  ~Qualifies1 /\ Qualifies2 /\ RowOf(m) = Head(IdCands)
            /\ m.match_type = "Fuzzy Name + Location" =>
                  ~Qualifies1 /\ ~Qualifies2 /\ Qualifies3 /\ RowOf(m) = BestRow(LocCands)

\* strategy 1 qualifies on one registry row while the School ID is the
\* identifier of another, and the strategy-1 row is returned
C4_Witness ==
    /\ resolved # <<>>
    /\ Qualifies1 /\ Qualifies2
    /\ Head(IdCands) # BestRow(BdCands)
    /\ Head(IdCands).ID # BestRow(BdCands).ID
    /\ resolved[1].main.match_type = "Fuzzy Name + Birthdate"
    /\ RowOf(resolved[1].main) = BestRow(BdCands)

C10_TotalNoMatch ==
    resolved # <<>> =>
        \A m \in {resolved[1].main, resolved[1].pe} :
            /\ m.match_type \in {"Fuzzy Name + Birthdate", "School ID",
                                 "Fuzzy Name + Location", "No Match"}
            /\ DOMAIN m = {"match_type", "notes", "ID", "fullname", "BD", "NM"}
            /\ (~Qualifies1 /\ ~Qualifies2 /\ ~Qualifies3) <=> m.match_type = "No Match"
            /\ m.match_type = "No Match" =>
                  m.notes = "" /\ m.ID = NA /\ m.fullname = NoneStr
                               /\ m.BD = NA /\ m.NM = NoneStr
            /\ (/\ resolved[1].row.Birthdate = NA
                /\ resolved[1].row.SchoolID = NA
                /\ resolved[1].row.Location = NanStr) => m.match_type = "No Match"

\* the row without birthdate and identifier, location "nan", resolved
\* against a registry that is not empty
C10_Witness ==
    /\ resolved # <<>>
    /\ dbStudents # <<>>
    /\ resolved[1].row.Birthdate = NA
    /\ resolved[1].row.SchoolID = NA
    /\ resolved[1].row.Location = NanStr
    /\ resolved[1].main.match_type = "No Match"
    /\ resolved[1].pe.match_type = "No Match"

-----------------------------------------------------------------------------
\* The write-back and the ledger

\* the first runs on an empty program table; the scheduled task keeps
\* running: every enabled step is eventually taken
LiveInit == Init /\ events = <<>>

LiveSpec == LiveInit /\ [][Next]_vars /\ WF_vars(Next)

\* the step is an exception of a database operation of process p
DbRaised(p) == failures' # failures /\ err'[p].at = "db"

\* number of program rows of a student with the program code of the batch
NEvents(i) == Cardinality({k \in DOMAIN events : events[k].id = i /\ events[k].pgm = PgmCode})

\* C1: with a single writer at most one program row exists for each
\* (student, program code) pair, and a row whose pair already has a program
\* row is left without insert: the existence check sends it to the next row.
C1_AtMostOneEvent ==
    /\ [](\A i \in Ids : NEvents(i) <= 1)
    /\ [][\A p \in Procs :
            (InRow(p) /\ notna(matched[p][ri[p]].ID) /\ NEvents(matched[p][ri[p]].ID) >= 1)
                => (events' = events /\ pc'[p] \notin {"seq", "insert"})]_vars

\* two rows of one batch resolve to the same student, both have been
\* handled, after a pass that was aborted, and the student has one program row
C1_Witness ==
    \E p \in Procs :
        /\ pc[p] = "row"
        /\ failures >= 1
        /\ \E i, j \in 1..(ri[p] - 1) :
              /\ i < j
              /\ matched[p][i].ID = matched[p][j].ID
              /\ notna(matched[p][i].ID)
              /\ NEvents(matched[p][i].ID) = 1

\* C2: every path of the ledger is a file whose add_program_batch returned
\* without raising, and a file whose processing raised in a run is not
\* appended to the ledger in that run.
C2_LedgerOnlyAfterPass ==
    /\ Range(ledger) \subseteq passed
    /\ \A p \in Procs : raised[p] \cap marked[p] = {}

\* one file of the run raised and the other one was appended to the ledger
C2_Witness ==
    \E p \in Procs : raised[p] # {} /\ marked[p] # {} /\ ledger # <<>>

\* C3 as stated: the database error of row N aborts that row only and the
\* loop goes on with row N+1 of the same file.
C3_ContinuesWithNextRow ==
    [][\A p \in Procs :
        DbRaised(p) => (pc'[p] = "row" /\ ri'[p] = ri[p] + 1 /\ todo'[p] = todo[p])]_vars

\* C3 amended: the database error of row N leaves add_program_batch: the
\* rows after N are not processed in that pass, the rejected rows are not
\* written, the file is not appended to the ledger in that run, and the
\* loop goes on with the next file.
C3_AbortsFile ==
    /\ [][\A p \in Procs :
            DbRaised(p) =>
                /\ pc'[p] = "file"
                /\ todo'[p] = Tail(todo[p])
                /\ ri'[p] = ri[p]
                /\ ledger' = ledger
                /\ rejectedOut' = rejectedOut
                /\ cur(p) \in raised'[p]]_vars
    /\ [](\A p \in Procs : raised[p] \cap marked[p] = {})

\* a database error on a row that is not the last one of its file, right
\* after it was caught: the loop is at the next file
C3_Witness ==
    \E p \in Procs :
        /\ err[p].at = "db"
        /\ err[p].file \in raised[p]
        /\ err[p].row < Len(files[err[p].file])
        /\ pc[p] = "file"
        /\ ri[p] = err[p].row
        /\ todo[p] = NewFiles(processed[p] \cup {f \in FileIds : f <= err[p].file})

\* C5: every insert uses the highest sequence number of the student over
\* all program codes plus one, or 1 without earlier row; so the sequence
\* numbers of one student are distinct and increase in insertion order.
C5_NextSequence ==
    /\ [][\A p \in Procs :
            (pc[p] = "insert" /\ events' # events) =>
                /\ Len(events') = Len(events) + 1
                /\ SubSeq(events', 1, Len(events)) = events
                /\ events'[Len(events')].id = id[p]
                /\ events'[Len(events')].pgm = PgmCode
                /\ LET prior == {events[k].sq : k \in {n \in DOMAIN events : events[n].id = id[p]}}
                   IN IF prior = {}
                      THEN events'[Len(events')].sq = 1
                      ELSE /\ events'[Len(events')].sq - 1 \in prior
                           /\ \A s \in prior : s < events'[Len(events')].sq]_vars
    /\ [](\A i, j \in DOMAIN events :
            (i < j /\ events[i].id = events[j].id) => events[i].sq < events[j].sq)

\* a student with rows of another program code got the row of the batch
\* with the next sequence number
C5_Witness ==
    \E i, j \in DOMAIN events :
        /\ i < j
        /\ events[i].id = events[j].id
        /\ events[i].pgm \in OtherCodes
        /\ events[j].pgm = PgmCode
        /\ events[j].sq = events[i].sq + 1
        /\ events[j].sq > 1
        /\ \E p \in Procs : pc[p] = "row" /\ ri[p] > 1 /\ id[p] = events[j].id
                            /\ next_sq[p] = events[j].sq

\* the entry of the rejected output holds every column of the row: under
\* the label of each column, the value of that column
InFull(out, row) ==
    /\ out.fullname = row.csv_fullname
    /\ out.fullname = row.db_fullname
    /\ out.Birthdate = row.Birthdate /\ out.SchoolID = row.SchoolID
    /\ out.Location = row.Location /\ out.match_type = row.match_type
    /\ out.notes = row.notes /\ out.ID = row.ID /\ out.BD = row.BD /\ out.NM = row.NM

\* C6: a row without registry identifier goes through no database
\* operation (the step that handles it cannot fail and changes no program
\* row), and when add_program_batch returns the rejected output holds, in
\* order, each row of the batch without identifier, in full.
C6_RejectedRowsInFull ==
    /\ [][\A p \in Procs :
            (InRow(p) /\ ~notna(matched[p][ri[p]].ID)) =>
                /\ failures' = failures
                /\ events' = events
                /\ pc'[p] = "row"
                /\ ri'[p] = ri[p] + 1]_vars
    /\ [](\A p \in Procs :
            pc[p] \in {"seq", "insert"} => notna(matched[p][ri[p]].ID) /\ id[p] # NA)
    /\ [](\A p \in Procs :
            pc[p] = "mark" =>
                LET rej == SelectSeq(matched[p], LAMBDA r : ~notna(r.ID))
                IN /\ rejectedOut # <<>>
                   /\ Len(rejectedOut[1]) = Len(rej)
                   /\ \A k \in DOMAIN rej : InFull(rejectedOut[1][k], rej[k]))

\* C9: every insert is committed before the next row is examined, and an
\* error raised in the batch leaves the program rows as they are: those of
\* the rows before the failing one stay in the table.
C9_NoRollback ==
    /\ [][\A p \in Procs :
            (failures' # failures /\ err'[p].at \in {"db", "rejected"}) =>
                /\ Len(events') >= Len(events)
                /\ SubSeq(events', 1, Len(events)) = events
                /\ \A j \in 1..(ri[p] - 1) :
                      notna(matched[p][j].ID) =>
                          \E k \in DOMAIN events' :
                              events'[k].id = matched[p][j].ID /\ events'[k].pgm = PgmCode]_vars
    /\ [](\A p \in Procs :
            pc[p] \in {"row", "seq", "insert", "mark"} =>
                \A j \in 1..(ri[p] - 1) :
                    notna(matched[p][j].ID) => NEvents(matched[p][j].ID) >= 1)

\* the first pass over file 1 inserted for an earlier row and then failed
\* on a database operation of a later row: the inserted row is in the table
C9_Witness ==
    \E p \in Procs :
        /\ err[p] = [file |-> 1, row |-> 2, at |-> "db"]
        /\ failures = 1
        /\ pc[p] = "file"
        /\ todo[p] = <<2>>
        /\ ledger = <<>>
        /\ events \notin InitialStores
        /\ notna(matched[p][1].ID)
        /\ NEvents(matched[p][1].ID) = 1

\* the file is in the ledger and each of its students that has an
\* identifier has one program row of the program code
Settled(f) ==
    /\ f \in Range(ledger)
    /\ \A i \in DOMAIN files[f] :
          notna(match_students(f)[i].ID) => NEvents(match_students(f)[i].ID) = 1

\* C8: a file that raised is not in the ledger of that run, so the next run
\* takes it again in full; the rows inserted before are skipped; and when the
\* failures stop the file ends up in the ledger with one program row for
\* each of its students that has an identifier.
C8_RetriedUntilLedgered ==
    /\ [][\A p \in Procs :
            (pc[p] = "idle" /\ pc'[p] = "file") =>
                \A f \in FileIds \ Range(ledger) : f \in Range(todo'[p])]_vars
    /\ [][\A p \in Procs :
            (pc[p] = "file" /\ pc'[p] = "to_csv") =>
                matched'[p] = match_students(cur(p)) /\ Len(matched'[p]) = Len(files[cur(p)])]_vars
    /\ \A f \in FileIds : (\E p \in Procs : f \in raised[p]) ~> Settled(f)

\* a file whose write-back raised after a committed row, in an earlier run,
\* is in the ledger with one program row for each of its students
C8_Witness ==
    \E p \in Procs :
        /\ err[p].at = "db"
        /\ err[p].row >= 2
        /\ err[p].file \notin raised[p]
        /\ err[p].file \in marked[p]
        /\ Settled(err[p].file)

-----------------------------------------------------------------------------
\* The grade maps

MaxGrades == 2      \* cells of the Grade column of a CSV

\* pd.NA in the Int64 column GR (the grades run from -1 to 10)
GradeNA == 99

\* the text of a Grade cell; NoneStr is an empty cell
IntTokens == {"0", "1", "2", "3", "4", "5", "6", "7", "8", "9", "10", "-1"}
GradeTokens == IntTokens \cup {"0K", "00JK", "-1JK", "zz", NoneStr}
GradeColumns == SeqsUpTo(GradeTokens, MaxGrades) \ {<<>>}

\* read_csv: a column of whole numbers is int64, with an empty cell among
\* them float64, with any other text object (the cells stay strings)
dtype(col) ==
    IF \A i \in DOMAIN col : col[i] \in IntTokens THEN "int64"
    ELSE IF \A i \in DOMAIN col : col[i] \in IntTokens \cup {NoneStr} THEN "float64"
    ELSE "object"

\* main.py, lines 16-28
grade_map ==
    ("8" :> 8) @@ ("3" :> 3) @@ ("2" :> 2) @@ ("4" :> 4) @@ ("5" :> 5) @@ ("6" :> 6) @@
    ("7" :> 7) @@ ("1" :> 1) @@ ("9" :> 9) @@ ("00JK" :> -1) @@ ("0K" :> 0)

\* process_enrollments.py, lines 65-81
GRADE_MAP ==
    ("0" :> 0) @@ ("1" :> 1) @@ ("2" :> 2) @@ ("3" :> 3) @@ ("4" :> 4) @@ ("5" :> 5) @@
    ("6" :> 6) @@ ("7" :> 7) @@ ("8" :> 8) @@ ("9" :> 9) @@ ("10" :> 10) @@ ("0K" :> 0) @@
    ("00JK" :> -1) @@ ("-1JK" :> -1) @@ ("-1" :> -1)

\* Series.map(dict) on one value: the entry of the key, NaN for any other
\* value; astype('Int64') and to_numeric keep the number and make NaN pd.NA
map_dict(d, key) == IF key \in DOMAIN d THEN d[key] ELSE GradeNA

\* main.py: df_stusheet['Grade'].map(grade_map).astype('Int64'). The keys of
\* grade_map are strings: the numbers of an int64 or float64 column are no keys
GR_main(col) ==
    [i \in DOMAIN col |->
        IF dtype(col) = "object" THEN map_dict(grade_map, col[i]) ELSE GradeNA]

\* Series.astype(str) on one cell of a column
astype_str(col, i) ==
    IF col[i] = NoneStr THEN NanStr
    ELSE IF dtype(col) = "float64" THEN col[i] \o ".0"
    ELSE col[i]

\* process_enrollments.py: df["Grade"].astype(str).map(GRADE_MAP), then
\* to_numeric(errors="coerce").astype("Int64")
GR_pe(col) == [i \in DOMAIN col |-> map_dict(GRADE_MAP, astype_str(col, i))]

GradeInit ==
    /\ files = [f \in FileIds |-> <<>>]
    /\ dbStudents = <<>>
    /\ score = Score0
    /\ events = <<>>
    /\ ledger = <<>>
    /\ rejectedOut = <<>>
    /\ matchedOut = {}
    /\ failures = 0
    /\ passed = {}
    /\ resolved = <<>>
    /\ InitProcs({})

\* both programs read a Grade column and derive GR from it
MapGrades ==
    /\ resolved = <<>>
    /\ \E col \in GradeColumns :
          resolved' = << [Grade |-> col, main |-> GR_main(col), pe |-> GR_pe(col)] >>
    /\ UNCHANGED <<worldVars, outVars, failures, procVars, logVars>>

GradeNext == MapGrades

GradeSpec == GradeInit /\ [][GradeNext]_vars

\* the lookup table of the Grade Normalizer
normalize(token) ==
    CASE token \in {"0", "0K"} -> 0
      [] token = "1" -> 1 [] token = "2" -> 2 [] token = "3" -> 3
      [] token = "4" -> 4 [] token = "5" -> 5 [] token = "6" -> 6
      [] token = "7" -> 7 [] token = "8" -> 8 [] token = "9" -> 9
      [] token = "10" -> 10
      [] token \in {"00JK", "-1JK", "-1"} -> -1
      [] OTHER -> GradeNA

\* C11: each of the two programs maps every grade token as the lookup table
\* states: "0" to "10" to themselves, "0K" to 0, "00JK", "-1JK" and "-1" to
\* -1, any other or absent token to null.
C11_GradeTable ==
    (resolved # <<>>) =>
        \A i \in DOMAIN resolved[1].Grade :
            /\ resolved[1].main[i] = normalize(resolved[1].Grade[i])
            /\ resolved[1].pe[i] = normalize(resolved[1].Grade[i])

\* C11, the dictionary of process_enrollments.py alone: on a column read as
\* text it gives every token the grade of the lookup table
C11_TextColumnPe ==
    (resolved # <<>> /\ dtype(resolved[1].Grade) = "object") =>
        \A i \in DOMAIN resolved[1].Grade :
            resolved[1].pe[i] = normalize(resolved[1].Grade[i])

-----------------------------------------------------------------------------
\* The students table within one run

\* process p is between match_students and the ledger line of a file
InFile(p) == pc[p] \in {"to_csv", "row", "seq", "insert", "mark"}

\* C12: within one run the students table is loaded from the database
\* exactly once, before the first file, and that table serves every row of
\* every file of the run: handling a file does not load it again.
C12_LoadedOncePerRun ==
    \A p \in Procs :
        /\ nloads[p] <= 1
        /\ InFile(p) => nloads[p] = 1

\* C12, what main.py does: each match_students that returns has read the
\* students table once more, and nothing else in the run reads it
C12_LoadedPerFile ==
    [][\A p \in Procs :
          IF pc[p] = "file" /\ pc'[p] = "to_csv" THEN nloads'[p] = nloads[p] + 1
          ELSE IF pc[p] = "idle" THEN nloads'[p] \in {0, nloads[p]}
          ELSE nloads'[p] = nloads[p]]_vars

-----------------------------------------------------------------------------
\* Two writers: main.py started twice on the same folder, database and out/

\* the folders whose two files have one row each
RaceFolders == {f \in Folders : \A n \in FileIds : Len(f[n]) = 1}

RaceInit ==
    /\ files \in RaceFolders
    /\ dbStudents = Registry0
    /\ score = Score0
    /\ events = <<>>
    /\ ledger = <<>>
    /\ rejectedOut = <<>>
    /\ matchedOut = {}
    /\ failures = 0
    /\ passed = {}
    /\ resolved = <<>>
    /\ InitProcs(Procs)

RaceSpec == RaceInit /\ [][Next]_vars

\* C13: the existence check, the sequence query and the insert are separate
\* steps and the insert does not look again. Two writers that are both at
\* the insert for one student have both found the pair absent and hold the
\* same sequence number; each insert adds its row whatever the table holds
\* by then, so the pair gets two program rows, one per writer.
C13_CheckThenInsertRace ==
    /\ [](\A p, q \in Procs :
            (p # q /\ pc[p] = "insert" /\ pc[q] = "insert" /\ id[p] = id[q]) =>
                /\ pgm_code_check(id[p], PgmCode) = <<>>
                /\ next_sq[p] = next_sq[q])
    /\ [](\A i \in Ids : NEvents(i) <= Cardinality(Procs))
    /\ [][\A p \in Procs :
            (pc[p] = "insert" /\ pc'[p] = "row") =>
                /\ events' = Append(events, Event(id[p], next_sq[p], PgmCode))
                /\ NEvents(id[p])' = NEvents(id[p]) + 1]_vars

\* two program rows of one student with the program code and the same
\* sequence number
C13_Witness ==
    \E j, k \in DOMAIN events :
        /\ j < k
        /\ events[j].pgm = PgmCode
        /\ events[j] = events[k]

-----------------------------------------------------------------------------
\* out/rejected_rows.csv

\* the rows of a matched table that have no ID, in order, as row.to_dict()
RejectsOf(tbl) ==
    LET sel == SelectSeq(tbl, LAMBDA r : ~notna(r.ID))
    IN [i \in DOMAIN sel |-> to_dict(sel[i])]

\* C14: the rejected-rows output is replaced, never added to. The step that
\* ends add_program_batch makes it hold the rejected rows of that file and
\* no others; no other step changes it, so after a run it holds the rows of
\* the last file whose add_program_batch returned, and a batch that raises
\* among its rows writes none of the rows it has rejected.
C14_RejectedReplaced ==
    /\ [][\A p \in Procs :
            (pc[p] = "row" /\ pc'[p] = "mark") =>
                rejectedOut' = <<RejectsOf(matched[p])>>]_vars
    /\ [][(rejectedOut' # rejectedOut) =>
            \E p \in Procs : pc[p] = "row" /\ pc'[p] = "mark"]_vars
    /\ [][\A p \in Procs :
            (failures' # failures /\ pc[p] \in {"row", "seq", "insert"}) =>
                rejectedOut' = rejectedOut /\ passed' = passed]_vars
    /\ [](IF passed = {} THEN rejectedOut = <<>>
          ELSE \E f \in passed : rejectedOut = <<RejectsOf(match_students(f))>>)

\* a run without failure over two files that both have rejected rows: the
\* output holds the rows of the second file alone
C14_Witness ==
    /\ failures = 0
    /\ ledger = <<1, 2>>
    /\ RejectsOf(match_students(1)) # <<>>
    /\ RejectsOf(match_students(2)) # <<>>
    /\ rejectedOut = <<RejectsOf(match_students(2))>>
    /\ Len(rejectedOut[1]) < Len(RejectsOf(match_students(1))) + Len(RejectsOf(match_students(2)))

====
